---- MODULE Spec2Model ----
(***************************************************************************)
(* ACADEX backend: the resource, review and request controllers, the       *)
(* routers in front of them and the relational store behind them.          *)
(*                                                                         *)
(* The store is the Postgres schema of supabase-schema.sql: tables are     *)
(* sets of rows, and an insert or update is rejected when it breaks a      *)
(* declared constraint (unique, foreign key, check).  A handler is a       *)
(* sequence of store round trips.  The review handlers are modelled one    *)
(* round trip per step, each request on its own worker, so that requests   *)
(* interleave between round trips; the resource handlers are modelled one  *)
(* request per step.  A ".single()" read of a row that does not exist      *)
(* comes back as an error with no data, which is how the handlers learn    *)
(* that the row is absent.  The two store calls of refreshResourceRating   *)
(* discard the error result, so a failing call there is an input of the    *)
(* model (faults), and so do the reads of the viewer's profile in          *)
(* getResources and getResourceById, whose result is an input where the    *)
(* two handlers are compared (ReadBoth); elsewhere the store is taken to   *)
(* answer.                                                                 *)
(*                                                                         *)
(* Time is in milliseconds.  One clock stands for Date.now() of the server *)
(* and now() of the store; it advances along a schedule of instants around *)
(* the end of the 24-hour lock window.  Ids are the count of rows inserted  *)
(* so far into the table, and 0 stands for a null reference.               *)
(*                                                                         *)
(* Ratings averages are kept in tenths (average_rating is numeric(3,1)).   *)
(***************************************************************************)
EXTENDS Integers, Sequences, FiniteSets, TLC

VARIABLES
    profiles,    \* public.profiles: user id -> college, for the users that have a row
    resources,   \* public.resources: resource id -> row
    reviews,     \* public.reviews: set of rows
    requests,    \* public.resource_requests: request id -> row
    nextResource,\* ids handed out so far by gen_random_uuid() for resources
    nextReview,  \* ids handed out so far by gen_random_uuid() for reviews
    nextRequest, \* ids handed out so far by gen_random_uuid() for requests
    now,         \* Date.now(), in milliseconds
    ticks,       \* how often the clock has advanced
    pc,          \* worker -> the round trip its review request is about to make
    loc,         \* worker -> the locals of its review request
    resp         \* the response sent by the step just taken (NoResp when none)

vars == <<profiles, resources, reviews, requests, nextResource, nextReview, nextRequest,
          now, ticks, pc, loc, resp>>

-----------------------------------------------------------------------------
\* Bounds of the model.

MaxResources == 2      \* resources ever inserted
MaxReviews == 3        \* reviews ever inserted
MaxRequests == 1       \* requests ever inserted
MaxTicks == 4          \* clock advances
NumWorkers == 2        \* request workers serving review requests at once
MaxRaters == 20        \* reviewers of one resource when its average is recomputed

-----------------------------------------------------------------------------
\* Values.

None == "none"         \* undefined / null
BadToken == "bad"      \* a bearer token the identity provider rejects

Users == {"A", "B", "C", "D"}          \* accounts of the identity provider
Credentials == Users \cup {None, BadToken}   \* what a request may carry
Colleges == {"X", "Y"}
Privacies == {"public", "private"}
Workers == 1..NumWorkers

\* Ratings a request body may hold: 0 fails the schema.
RatingInputs == {0, 2, 3, 5}

LOCK_WINDOW_MS == 24 * 60 * 60 * 1000
\* The instants at which requests arrive: 0 and one second later, then the end
\* of the lock window of a row created at 0, and each second after it.
Instant(i) == IF i <= 1 THEN i * 1000 ELSE LOCK_WINDOW_MS + (i - 2) * 1000

\* A response, with the request it answers: the handler (op), the credential
\* the request carried (cred), req.user?.id as the handler saw it (viewer), the
\* id in the path or body (arg), the privacy filter of a list query (query),
\* the resourceId of a fulfil body (resource, 0 when there is none), the
\* rating of the body of a review request that is answered before its first
\* write (body, <<>> when there is none), the HTTP status, the error, and the
\* rows of a list (resource ids, review ids, leaderboard entries).
NoResp == [op |-> None, cred |-> None, viewer |-> None, arg |-> 0, query |-> None,
           resource |-> 0, body |-> <<>>, status |-> 0, error |-> None, list |-> <<>>]

\* The ids a request may name: those the store can have handed out.
ResourceIds == 1..MaxResources
ReviewIds == 1..MaxReviews
RequestIds == 1..MaxRequests

IdleLoc == [op |-> None, cred |-> None, user |-> None, rid |-> 0, revid |-> 0,
            body |-> <<>>, total |-> 0, average |-> 0]

-----------------------------------------------------------------------------
\* Mutant: a token the identity provider rejects is taken for A's.
authMiddleware_AcceptsAnyToken(cred) ==
    IF cred = None THEN None ELSE IF cred \in Users THEN cred ELSE "A"

\* authMiddleware: the user a credential resolves to, None when there is no
\* bearer token or the identity provider rejects it.
authMiddleware(cred) == IF cred \in Users THEN cred ELSE None

\* The routes that are mounted behind authMiddleware: of the resource router
\* all but the three GET routes (the list, the request list and the single
\* fetch), of the review router all but the GET route.
ProtectedResourceRoutes == {"createResource", "updateResource", "deleteResource",
                            "createRequest", "fulfillRequest"}
ProtectedReviewRoutes == {"createReview", "updateReview", "deleteReview"}
ProtectedRoutes == ProtectedResourceRoutes \cup ProtectedReviewRoutes

\* req.user?.id as the handler of route op sees it.
reqUser(op, cred) == IF op \in ProtectedRoutes THEN authMiddleware(cred) ELSE None

\* Mutant: the window closed at exactly 24 hours.
isWithin24Hours_Strict(createdAt) == now - createdAt < LOCK_WINDOW_MS

\* isWithin24Hours(createdAt)
isWithin24Hours(createdAt) == now - createdAt <= LOCK_WINDOW_MS

-----------------------------------------------------------------------------
\* Number.prototype.toFixed(1) of the double sum / count, in tenths.  The
\* quotient is rounded to the nearest tenth; when the exact quotient lies
\* halfway between two tenths, (2k+1)/20, the double nearest to it decides:
\* it is below the halfway point for the k of TieRoundsDown, and at or above
\* it otherwise (IEEE 754 binary64).
TieRoundsDown == {1, 3, 8, 9, 11, 14, 16, 19, 20, 21, 25, 26, 30, 31, 35, 36,
                  40, 43, 45, 48, 50, 53, 55, 58}

\* Mutant: the quotient cut to one decimal instead of rounded.
toFixed1_Truncates(sum, count) == (10 * sum) \div count

toFixed1(sum, count) ==
    LET k == (10 * sum) \div count
        r == (10 * sum) % count
    IN  IF 2 * r < count THEN k
        ELSE IF 2 * r > count THEN k + 1
        ELSE IF k \in TieRoundsDown THEN k ELSE k + 1

RECURSIVE SumRatings(_)
SumRatings(rows) ==
    IF rows = {} THEN 0
    ELSE LET row == CHOOSE x \in rows : TRUE
         IN  row.rating + SumRatings(rows \ {row})

\* The rows the select of refreshResourceRating returns.
ReviewsOf(rid) == {row \in reviews : row.resource_id = rid}

\* The result of the select of refreshResourceRating: the rows, or no data
\* when the call fails.
SelectRatings(rid, fault) ==
    IF fault THEN [error |-> TRUE, rows |-> {}]
    ELSE [error |-> FALSE, rows |-> ReviewsOf(rid)]

\* totalRatings and averageRating as refreshResourceRating computes them from
\* the result of the read: reviews?.length ?? 0, and the mean of the ratings
\* through toFixed(1), or 0 when there are no rows.
totalRatings(data) == IF data.error THEN 0 ELSE Cardinality(data.rows)

averageRating(data) ==
    IF totalRatings(data) > 0
    THEN toFixed1(SumRatings(data.rows), totalRatings(data))
    ELSE 0

-----------------------------------------------------------------------------
\* The store's constraints on public.reviews.

\* Mutant: the table declared without its unique constraint.
UniqueViolation_NotDeclared(rid, user) == FALSE

\* unique (resource_id, user_id)
UniqueViolation(rid, user) ==
    \E row \in reviews : row.resource_id = rid /\ row.user_id = user

\* resource_id references resources(id), user_id references profiles(id)
ForeignKeyViolation(rid, user) ==
    rid \notin DOMAIN resources \/ user \notin DOMAIN profiles

\* rating integer check (rating between 1 and 5)
RatingCheck(rating) == rating \in 1..5

\* reviewSchema / reviewUpdateSchema: rating is an integer from 1 to 5.  The
\* update schema makes the field optional: a body is <<>> (no rating) or
\* <<rating>>.
\* Mutant: the schema lets every number through.
reviewSchema_AnyNumber(rating) == TRUE
reviewSchema(rating) == rating \in 1..5
reviewUpdateSchema(body) == body = <<>> \/ body[1] \in 1..5
UpdateBodies(ratings) == {<<>>} \cup {<<r>> : r \in ratings}

Respond(op, cred, viewer, arg, status, error) ==
    [op |-> op, cred |-> cred, viewer |-> viewer, arg |-> arg, query |-> None,
     resource |-> 0, body |-> <<>>, status |-> status, error |-> error, list |-> <<>>]

RequestsUnchanged == UNCHANGED <<requests, nextRequest>>
StoreUnchanged ==
    /\ UNCHANGED <<profiles, resources, reviews, nextResource, nextReview>>
    /\ RequestsUnchanged
ClockUnchanged == UNCHANGED <<now, ticks>>

\* A worker answers and is free for the next request.
Return(w, r) ==
    /\ resp' = r
    /\ pc' = [pc EXCEPT ![w] = "idle"]
    /\ loc' = [loc EXCEPT ![w] = IdleLoc]

\* A worker goes on to its next round trip.
Goto(w, label, l) ==
    /\ resp' = NoResp
    /\ pc' = [pc EXCEPT ![w] = label]
    /\ loc' = [loc EXCEPT ![w] = l]

\* Inserts that are still to come from requests past their pre-check.
PendingInserts == Cardinality({w \in Workers : pc[w] = "cr_insert"})

-----------------------------------------------------------------------------
\* createReview, up to the insert: the route's authMiddleware, the schema, and
\* the pre-check that the user has no review of the resource yet.
CreateReviewCheck(w, in) ==
    /\ pc[w] = "idle"
    /\ nextReview + PendingInserts < MaxReviews
    /\ \E cred \in in.creds, rid \in ResourceIds, rating \in in.ratings :
         LET user == reqUser("createReview", cred)
             existing == {row \in reviews : row.resource_id = rid /\ row.user_id = user}
             answer(status, error) ==
                 [Respond("createReview", cred, user, rid, status, error)
                     EXCEPT !.body = <<rating>>]
         IN  IF user = None
             THEN Return(w, answer(401, "Unauthorized"))
             ELSE IF ~reviewSchema(rating)
             THEN Return(w, answer(400, "Invalid review data"))
             ELSE IF existing # {}
             THEN Return(w, answer(409, "Duplicate review"))
             ELSE Goto(w, "cr_insert",
                       [IdleLoc EXCEPT !.op = "createReview", !.cred = cred, !.user = user,
                                       !.rid = rid, !.body = <<rating>>])
    /\ StoreUnchanged
    /\ ClockUnchanged

\* createReview: the insert.  The store rejects a row that breaks a constraint
\* of public.reviews, and the handler answers 500 with the store's message.
CreateReviewInsert(w) ==
    /\ pc[w] = "cr_insert"
    /\ LET l == loc[w]
           rejected == \/ UniqueViolation(l.rid, l.user)
                       \/ ForeignKeyViolation(l.rid, l.user)
                       \/ ~RatingCheck(l.body[1])
       IN  IF rejected
           THEN /\ Return(w, Respond("createReview", l.cred, l.user, l.rid, 500, "Store error"))
                /\ UNCHANGED <<reviews, nextReview>>
           ELSE /\ reviews' = reviews \cup
                       {[id |-> nextReview + 1, resource_id |-> l.rid, user_id |-> l.user,
                         rating |-> l.body[1], created_at |-> now]}
                /\ nextReview' = nextReview + 1
                /\ Goto(w, "ref_read", [l EXCEPT !.revid = nextReview + 1])
    /\ UNCHANGED <<profiles, resources, nextResource>>
    /\ RequestsUnchanged
    /\ ClockUnchanged

\* refreshResourceRating: the select of the resource's ratings and the
\* computation of totalRatings and averageRating from what it returned.
RefreshRead(w, in) ==
    /\ pc[w] = "ref_read"
    /\ \E fault \in in.faults :
         LET data == SelectRatings(loc[w].rid, fault)
         IN  Goto(w, "ref_write",
                  [loc[w] EXCEPT !.total = totalRatings(data), !.average = averageRating(data)])
    /\ StoreUnchanged
    /\ ClockUnchanged

\* The update of refreshResourceRating, as the store applies it.
UpdateRating(rid, average, total, fault) ==
    IF fault \/ rid \notin DOMAIN resources
    THEN resources
    ELSE [resources EXCEPT ![rid].average_rating = average, ![rid].total_ratings = total]

\* The status a review handler answers with after refreshResourceRating.
SuccessStatus(op) == IF op = "createReview" THEN 201 ELSE 200

\* refreshResourceRating: the update of average_rating and total_ratings;
\* then the handler answers with success.
RefreshWrite(w, in) ==
    /\ pc[w] = "ref_write"
    /\ \E fault \in in.faults :
         resources' = UpdateRating(loc[w].rid, loc[w].average, loc[w].total, fault)
    /\ LET l == loc[w]
       IN  Return(w, Respond(l.op, l.cred, l.user,
                             IF l.op = "createReview" THEN l.rid ELSE l.revid,
                             SuccessStatus(l.op), None))
    /\ UNCHANGED <<profiles, reviews, nextResource, nextReview>>
    /\ RequestsUnchanged
    /\ ClockUnchanged

\* updateReview, up to the update: authMiddleware, the schema, the read of the
\* review, the owner check and the 24-hour lock.
UpdateReviewCheck(w, in) ==
    /\ pc[w] = "idle"
    /\ \E cred \in in.creds, revid \in ReviewIds, body \in UpdateBodies(in.ratings) :
         LET user == reqUser("updateReview", cred)
             found == {row \in reviews : row.id = revid}
             answer(status, error) ==
                 [Respond("updateReview", cred, user, revid, status, error)
                     EXCEPT !.body = body]
         IN  IF user = None
             THEN Return(w, answer(401, "Unauthorized"))
             ELSE IF ~reviewUpdateSchema(body)
             THEN Return(w, answer(400, "Invalid review update"))
             ELSE IF found = {}
             THEN Return(w, answer(404, "Review not found"))
             ELSE LET existing == CHOOSE row \in found : TRUE
                  IN  IF existing.user_id # user
                      THEN Return(w, answer(403, "Not owner"))
                      ELSE IF ~isWithin24Hours(existing.created_at)
                      THEN Return(w, answer(403, "Lock expired"))
                      ELSE Goto(w, "upd_write",
                                [IdleLoc EXCEPT !.op = "updateReview", !.cred = cred,
                                                !.user = user, !.rid = existing.resource_id,
                                                !.revid = revid, !.body = body])
    /\ StoreUnchanged
    /\ ClockUnchanged

\* Mutant: the update stamps the row with the time of the edit.
UpdateReviewWrite_ResetsCreatedAt(w) ==
    /\ pc[w] = "upd_write"
    /\ LET l == loc[w]
           found == {row \in reviews : row.id = l.revid}
       IN  IF found = {}
           THEN /\ Return(w, Respond("updateReview", l.cred, l.user, l.revid, 500, "Store error"))
                /\ UNCHANGED reviews
           ELSE /\ reviews' = {IF row.id = l.revid
                               THEN [row EXCEPT !.rating = IF l.body # <<>> THEN l.body[1] ELSE @,
                                                !.created_at = now]
                               ELSE row : row \in reviews}
                /\ Goto(w, "ref_read", l)
    /\ UNCHANGED <<profiles, resources, nextResource, nextReview>>
    /\ RequestsUnchanged
    /\ ClockUnchanged

\* updateReview: the update, which sets the rating when the body has one and
\* leaves created_at alone.  It fails, and the handler answers 500, when the
\* row is gone.
UpdateReviewWrite(w) ==
    /\ pc[w] = "upd_write"
    /\ LET l == loc[w]
           found == {row \in reviews : row.id = l.revid}
       IN  IF found = {}
           THEN /\ Return(w, Respond("updateReview", l.cred, l.user, l.revid, 500, "Store error"))
                /\ UNCHANGED reviews
           ELSE /\ reviews' = {IF row.id = l.revid /\ l.body # <<>>
                               THEN [row EXCEPT !.rating = l.body[1]]
                               ELSE row : row \in reviews}
                /\ Goto(w, "ref_read", l)
    /\ UNCHANGED <<profiles, resources, nextResource, nextReview>>
    /\ RequestsUnchanged
    /\ ClockUnchanged

\* Mutant: the 24-hour lock checked before the owner.
DeleteReviewCheck_LockFirst(w, in) ==
    /\ pc[w] = "idle"
    /\ \E cred \in in.creds, revid \in ReviewIds :
         LET user == reqUser("deleteReview", cred)
             found == {row \in reviews : row.id = revid}
         IN  IF user = None
             THEN Return(w, Respond("deleteReview", cred, user, revid, 401, "Unauthorized"))
             ELSE IF found = {}
             THEN Return(w, Respond("deleteReview", cred, user, revid, 404, "Review not found"))
             ELSE LET existing == CHOOSE row \in found : TRUE
                  IN  IF ~isWithin24Hours(existing.created_at)
                      THEN Return(w, Respond("deleteReview", cred, user, revid, 403, "Lock expired"))
                      ELSE IF existing.user_id # user
                      THEN Return(w, Respond("deleteReview", cred, user, revid, 403, "Not owner"))
                      ELSE Goto(w, "del_write",
                                [IdleLoc EXCEPT !.op = "deleteReview", !.cred = cred,
                                                !.user = user, !.rid = existing.resource_id,
                                                !.revid = revid])
    /\ StoreUnchanged
    /\ ClockUnchanged

\* deleteReview, up to the delete: authMiddleware, the read of the review, the
\* owner check and the 24-hour lock.
DeleteReviewCheck(w, in) ==
    /\ pc[w] = "idle"
    /\ \E cred \in in.creds, revid \in ReviewIds :
         LET user == reqUser("deleteReview", cred)
             found == {row \in reviews : row.id = revid}
         IN  IF user = None
             THEN Return(w, Respond("deleteReview", cred, user, revid, 401, "Unauthorized"))
             ELSE IF found = {}
             THEN Return(w, Respond("deleteReview", cred, user, revid, 404, "Review not found"))
             ELSE LET existing == CHOOSE row \in found : TRUE
                  IN  IF existing.user_id # user
                      THEN Return(w, Respond("deleteReview", cred, user, revid, 403, "Not owner"))
                      ELSE IF ~isWithin24Hours(existing.created_at)
                      THEN Return(w, Respond("deleteReview", cred, user, revid, 403, "Lock expired"))
                      ELSE Goto(w, "del_write",
                                [IdleLoc EXCEPT !.op = "deleteReview", !.cred = cred,
                                                !.user = user, !.rid = existing.resource_id,
                                                !.revid = revid])
    /\ StoreUnchanged
    /\ ClockUnchanged

\* deleteReview: the delete, which succeeds whether or not the row is still
\* there.
DeleteReviewWrite(w) ==
    /\ pc[w] = "del_write"
    /\ reviews' = {row \in reviews : row.id # loc[w].revid}
    /\ Goto(w, "ref_read", loc[w])
    /\ UNCHANGED <<profiles, resources, nextResource, nextReview>>
    /\ RequestsUnchanged
    /\ ClockUnchanged

\* The clock advances.
Tick ==
    /\ ticks < MaxTicks
    /\ ticks' = ticks + 1
    /\ now' = Instant(ticks + 1)
    /\ resp' = NoResp
    /\ UNCHANGED <<pc, loc>>
    /\ StoreUnchanged

-----------------------------------------------------------------------------
\* The store after construction: no rows.  The identity provider knows the
\* users, and A, B (college X) and C (college Y) have signed up with a
\* profile; D's sign-up did not get as far as the profile row.
SignedUp == [u \in {"A", "B", "C"} |-> IF u = "C" THEN "Y" ELSE "X"]

Init ==
    /\ profiles = SignedUp
    /\ resources = << >>
    /\ reviews = {}
    /\ requests = << >>
    /\ nextResource = 0
    /\ nextReview = 0
    /\ nextRequest = 0
    /\ now = 0
    /\ ticks = 0
    /\ pc = [w \in Workers |-> "idle"]
    /\ loc = [w \in Workers |-> IdleLoc]
    /\ resp = NoResp

\* The row createResource inserts for an upload by user with the given
\* privacy: college is the uploader's profile college, the rating columns
\* take their defaults.
NewResource(user, privacy) ==
    [uploader_id |-> user, college |-> profiles[user], privacy |-> privacy,
     average_rating |-> 0, total_ratings |-> 0, created_at |-> now]

-----------------------------------------------------------------------------
\* resourceController.  A request body's privacy is "public", "private" or a
\* value the schema rejects; an update may leave it out (None).
PrivacyInputs == Privacies \cup {"invalid"}

\* createResource: authMiddleware, the schema, the read of the uploader's
\* profile, and the insert.
CreateResource(in) ==
    /\ nextResource < MaxResources
    /\ \E cred \in in.creds, privacy \in PrivacyInputs :
         LET user == reqUser("createResource", cred)
             id == nextResource + 1
         IN  IF user = None
             THEN /\ resp' = Respond("createResource", cred, user, 0, 401, "Unauthorized")
                  /\ UNCHANGED <<resources, nextResource>>
             ELSE IF privacy \notin Privacies
             THEN /\ resp' = Respond("createResource", cred, user, 0, 400, "Invalid resource data")
                  /\ UNCHANGED <<resources, nextResource>>
             ELSE IF user \notin DOMAIN profiles
             THEN /\ resp' = Respond("createResource", cred, user, 0, 404, "User profile not found")
                  /\ UNCHANGED <<resources, nextResource>>
             ELSE /\ resources' = resources @@ (id :> NewResource(user, privacy))
                  /\ nextResource' = id
                  /\ resp' = Respond("createResource", cred, user, id, 201, None)
    /\ UNCHANGED <<profiles, reviews, nextReview, pc, loc>>
    /\ RequestsUnchanged
    /\ ClockUnchanged

\* Mutant: the viewer is checked before the row's privacy.
visible_ViewerFirst(userId, userCollege, row) ==
    IF userId = None \/ userCollege = None THEN FALSE
    ELSE row.privacy = "public" \/ row.uploader_id = userId \/ row.college = userCollege

\* The filter of getResources over the rows of the query: public rows pass,
\* private rows pass for a viewer with a college who uploaded the row or is of
\* the row's college.
visible(userId, userCollege, row) ==
    IF row.privacy = "public" THEN TRUE
    ELSE IF userId = None \/ userCollege = None THEN FALSE
    ELSE row.uploader_id = userId \/ row.college = userCollege

\* The check of getResourceById on a private resource, profileCollege being
\* profile?.college (None when the viewer has no profile row).
allowed(userId, profileCollege, resource) ==
    resource.uploader_id = userId \/ profileCollege = resource.college

\* profile?.college of a user, None when there is no row.
CollegeOf(userId) == IF userId \in DOMAIN profiles THEN profiles[userId] ELSE None

\* Mutant: the query without its order.
QueryResults_Unordered(privacy) ==
    LET ids == {id \in DOMAIN resources : privacy = None \/ resources[id].privacy = privacy}
        n == Cardinality(ids)
    IN  {seq \in [1..n -> ids] : \A i, j \in 1..n : i # j => seq[i] # seq[j]}

\* The rows of the query of getResources: those that match the privacy filter
\* (None: no filter), ordered by created_at descending; rows created at the
\* same instant come in any order.
QueryResults(privacy) ==
    LET ids == {id \in DOMAIN resources : privacy = None \/ resources[id].privacy = privacy}
        n == Cardinality(ids)
    IN  {seq \in [1..n -> ids] :
            /\ \A i, j \in 1..n : i # j => seq[i] # seq[j]
            /\ \A i, j \in 1..n :
                 i < j => resources[seq[i]].created_at >= resources[seq[j]].created_at}

\* getResources: the viewer's college, the filtered and ordered query, and the
\* visibility filter over its rows.
GetResources(in) ==
    /\ \E cred \in in.creds, privacy \in Privacies \cup {None} :
         LET userId == reqUser("getResources", cred)
             userCollege == IF userId # None THEN CollegeOf(userId) ELSE None
         IN  \E data \in QueryResults(privacy) :
               LET keep(id) == visible(userId, userCollege, resources[id])
               IN  resp' = [op |-> "getResources", cred |-> cred, viewer |-> userId,
                            arg |-> 0, query |-> privacy, resource |-> 0, body |-> <<>>,
                            status |-> 200, error |-> None, list |-> SelectSeq(data, keep)]
    /\ UNCHANGED <<pc, loc>>
    /\ StoreUnchanged
    /\ ClockUnchanged

\* getResourceById when the read of the viewer's profile gives
\* profileCollege (None: no row came back; the handler ignores the error of
\* the read).
getResourceByIdWith(userId, profileCollege, id) ==
    IF id \notin DOMAIN resources THEN 404
    ELSE IF resources[id].privacy = "private" /\ userId = None THEN 403
    ELSE IF /\ resources[id].privacy = "private"
            /\ ~allowed(userId, profileCollege, resources[id]) THEN 403
    ELSE 200

\* The list getResources answers with when the read of the viewer's profile
\* gives userCollege and the query returns data.
getResourcesWith(userId, userCollege, data) ==
    LET keep(id) == visible(userId, userCollege, resources[id])
    IN  SelectSeq(data, keep)

\* Mutant: the privacy check left out.
getResourceById_NoPrivacyCheck(userId, id) ==
    IF id \notin DOMAIN resources THEN 404 ELSE 200

\* Mutant: a resource the viewer may not see reported as absent.
getResourceById_DeniedAsNotFound(userId, id) ==
    IF id \notin DOMAIN resources THEN 404
    ELSE IF resources[id].privacy = "private" /\ userId = None THEN 404
    ELSE 200

\* The status getResourceById answers with: 404 when the read finds no row;
\* for a private row 403 without a viewer and 403 when the check fails;
\* otherwise 200 with the resource.
getResourceById(userId, id) == getResourceByIdWith(userId, CollegeOf(userId), id)

StatusError(status) ==
    IF status = 404 THEN "Resource not found"
    ELSE IF status = 403 THEN "Access denied" ELSE None

GetResourceById(in) ==
    /\ \E cred \in in.creds, id \in ResourceIds :
         LET userId == reqUser("getResourceById", cred)
             status == getResourceById(userId, id)
         IN  resp' = Respond("getResourceById", cred, userId, id, status, StatusError(status))
    /\ UNCHANGED <<pc, loc>>
    /\ StoreUnchanged
    /\ ClockUnchanged

\* What the read of a viewer's profile college may give a handler: the
\* college of the row, or nothing, when there is no row or the read fails.
ProfileReads(userId) == {CollegeOf(userId), None}

\* The two read handlers called for one viewer (req.user set to userId, or
\* not set) and one resource, with the same result of the profile read and no
\* filter in the query string: status is the answer of getResourceById, list
\* the answer of getResources.
ReadBoth(in) ==
    /\ \E userId \in in.viewers, id \in ResourceIds :
       \E college \in IF userId = None THEN {None} ELSE ProfileReads(userId) :
       \E data \in QueryResults(None) :
           resp' = [Respond("reads", userId, userId, id,
                            getResourceByIdWith(userId, college, id), None)
                       EXCEPT !.list = getResourcesWith(userId, college, data)]
    /\ UNCHANGED <<pc, loc>>
    /\ StoreUnchanged
    /\ ClockUnchanged

\* What a body may hold besides the fields of its schema: nothing, or keys
\* named after columns of the row.  The schemas are plain z.object schemas,
\* which drop the keys they do not declare.
BodyExtras == {<< >>, [college |-> "Y", average_rating |-> 50, total_ratings |-> 9]}

\* Mutant: the body is spread into the update.
updatePayload_SpreadsBody(privacy, extra) ==
    IF privacy = None THEN extra ELSE [privacy |-> privacy] @@ extra

\* The object updateResource passes to .update(...): one column for each
\* schema field the body holds; of the fields the model keeps, privacy.
updatePayload(privacy, extra) ==
    IF privacy = None THEN << >> ELSE [privacy |-> privacy]

\* A row after an update with the given columns.
Updated(row, payload) ==
    [c \in DOMAIN row |-> IF c \in DOMAIN payload THEN payload[c] ELSE row[c]]

\* updateResource: authMiddleware, the schema, the read of the row, the owner
\* check, the 24-hour lock, and the update of the fields the body holds.
UpdateResource(in) ==
    /\ \E cred \in in.creds, id \in ResourceIds, privacy \in PrivacyInputs \cup {None},
          extra \in BodyExtras :
         LET user == reqUser("updateResource", cred)
         IN  IF user = None
             THEN /\ resp' = Respond("updateResource", cred, user, id, 401, "Unauthorized")
                  /\ UNCHANGED resources
             ELSE IF privacy \notin Privacies \cup {None}
             THEN /\ resp' = Respond("updateResource", cred, user, id, 400, "Invalid resource update")
                  /\ UNCHANGED resources
             ELSE IF id \notin DOMAIN resources
             THEN /\ resp' = Respond("updateResource", cred, user, id, 404, "Resource not found")
                  /\ UNCHANGED resources
             ELSE IF resources[id].uploader_id # user
             THEN /\ resp' = Respond("updateResource", cred, user, id, 403, "Not owner")
                  /\ UNCHANGED resources
             ELSE IF ~isWithin24Hours(resources[id].created_at)
             THEN /\ resp' = Respond("updateResource", cred, user, id, 403, "Lock expired")
                  /\ UNCHANGED resources
             ELSE /\ resources' = [resources EXCEPT
                                       ![id] = Updated(@, updatePayload(privacy, extra))]
                  /\ resp' = Respond("updateResource", cred, user, id, 200, None)
    /\ UNCHANGED <<profiles, reviews, nextResource, nextReview, pc, loc>>
    /\ RequestsUnchanged
    /\ ClockUnchanged

\* Mutant: a request whose resource is deleted is opened again.
OnDeleteSetNull_Reopens(id) ==
    [q \in DOMAIN requests |->
        IF requests[q].fulfilled_resource_id = id
        THEN [requests[q] EXCEPT !.fulfilled_resource_id = 0, !.status = "open"]
        ELSE requests[q]]

\* fulfilled_resource_id ... on delete set null: the requests after the delete
\* of resource id (0 stands for null).
OnDeleteSetNull(id) ==
    [q \in DOMAIN requests |->
        IF requests[q].fulfilled_resource_id = id
        THEN [requests[q] EXCEPT !.fulfilled_resource_id = 0]
        ELSE requests[q]]

\* deleteResource: authMiddleware, the read of the row, the owner check, the
\* 24-hour lock, and the delete, which takes the resource's reviews with it
\* (on delete cascade) and clears the requests' references to it (on delete
\* set null).
DeleteResource(in) ==
    /\ \E cred \in in.creds, id \in ResourceIds :
         LET user == reqUser("deleteResource", cred)
         IN  IF user = None
             THEN /\ resp' = Respond("deleteResource", cred, user, id, 401, "Unauthorized")
                  /\ UNCHANGED <<resources, reviews, requests>>
             ELSE IF id \notin DOMAIN resources
             THEN /\ resp' = Respond("deleteResource", cred, user, id, 404, "Resource not found")
                  /\ UNCHANGED <<resources, reviews, requests>>
             ELSE IF resources[id].uploader_id # user
             THEN /\ resp' = Respond("deleteResource", cred, user, id, 403, "Not owner")
                  /\ UNCHANGED <<resources, reviews, requests>>
             ELSE IF ~isWithin24Hours(resources[id].created_at)
             THEN /\ resp' = Respond("deleteResource", cred, user, id, 403, "Lock expired")
                  /\ UNCHANGED <<resources, reviews, requests>>
             ELSE /\ resources' = [r \in DOMAIN resources \ {id} |-> resources[r]]
                  /\ reviews' = {row \in reviews : row.resource_id # id}
                  /\ requests' = OnDeleteSetNull(id)
                  /\ resp' = Respond("deleteResource", cred, user, id, 200, None)
    /\ UNCHANGED <<profiles, nextResource, nextReview, nextRequest, pc, loc>>
    /\ ClockUnchanged

-----------------------------------------------------------------------------
\* resourceController: the requests, and authController: updateProfile.

\* The row createRequest inserts: status takes its default 'open', and
\* fulfilled_resource_id is null (0).
NewRequest(user) ==
    [requester_id |-> user, status |-> "open", fulfilled_resource_id |-> 0, created_at |-> now]

\* createRequest: authMiddleware, the schema, and the insert, which the store
\* rejects when the requester has no profile row (requester_id references
\* profiles).
CreateRequest(in) ==
    /\ nextRequest < MaxRequests
    /\ \E cred \in in.creds, valid \in BOOLEAN :
         LET user == reqUser("createRequest", cred)
             id == nextRequest + 1
         IN  IF user = None
             THEN /\ resp' = Respond("createRequest", cred, user, 0, 401, "Unauthorized")
                  /\ UNCHANGED <<requests, nextRequest>>
             ELSE IF ~valid
             THEN /\ resp' = Respond("createRequest", cred, user, 0, 400, "Invalid request data")
                  /\ UNCHANGED <<requests, nextRequest>>
             ELSE IF user \notin DOMAIN profiles
             THEN /\ resp' = Respond("createRequest", cred, user, 0, 500, "Store error")
                  /\ UNCHANGED <<requests, nextRequest>>
             ELSE /\ requests' = requests @@ (id :> NewRequest(user))
                  /\ nextRequest' = id
                  /\ resp' = Respond("createRequest", cred, user, id, 201, None)
    /\ UNCHANGED <<profiles, resources, reviews, nextResource, nextReview, pc, loc>>
    /\ ClockUnchanged

\* Mutant: the column declared without its reference to resources.
RequestForeignKeyViolation_NotDeclared(resourceId) == FALSE

\* fulfilled_resource_id uuid references public.resources(id)
RequestForeignKeyViolation(resourceId) == resourceId \notin DOMAIN resources

\* Mutant: a request that is fulfilled keeps the resource it was fulfilled by.
fulfilled_KeepsFirst(row, resourceId) ==
    IF row.status = "fulfilled" THEN row
    ELSE [row EXCEPT !.status = "fulfilled", !.fulfilled_resource_id = resourceId]

\* Mutant: the update writes the reference and leaves the status.
fulfilled_StatusNotSet(row, resourceId) ==
    [row EXCEPT !.fulfilled_resource_id = resourceId]

\* The row after .update({ status: "fulfilled", fulfilled_resource_id: resourceId }).
fulfilled(row, resourceId) ==
    [row EXCEPT !.status = "fulfilled", !.fulfilled_resource_id = resourceId]

\* What the body of a fulfil request may hold as resourceId: nothing (0), or
\* an id, of a resource that exists or not.
ResourceIdInputs == {0} \cup ResourceIds

\* fulfillRequest: authMiddleware, the check that the body holds a
\* resourceId, and the update of the rows with the id of the path.  An update
\* that matches no row changes nothing and is no error; an update of a row is
\* rejected by the store when resourceId is the id of no resource.
FulfillRequest(in) ==
    /\ \E cred \in in.creds, id \in RequestIds, resourceId \in ResourceIdInputs :
         LET user == reqUser("fulfillRequest", cred)
             answer(status, error) ==
                 [Respond("fulfillRequest", cred, user, id, status, error)
                     EXCEPT !.resource = resourceId]
         IN  IF user = None
             THEN /\ resp' = answer(401, "Unauthorized")
                  /\ UNCHANGED requests
             ELSE IF resourceId = 0
             THEN /\ resp' = answer(400, "resourceId is required")
                  /\ UNCHANGED requests
             ELSE IF id \notin DOMAIN requests
             THEN /\ resp' = answer(200, None)
                  /\ UNCHANGED requests
             ELSE IF RequestForeignKeyViolation(resourceId)
             THEN /\ resp' = answer(500, "Store error")
                  /\ UNCHANGED requests
             ELSE /\ requests' = [requests EXCEPT ![id] = fulfilled(requests[id], resourceId)]
                  /\ resp' = answer(200, None)
    /\ UNCHANGED <<profiles, resources, reviews, nextResource, nextReview, nextRequest, pc, loc>>
    /\ ClockUnchanged

\* Mutant: a change of college is copied to the resources of the user.
UpdateProfile_RewritesResources(in) ==
    /\ \E cred \in in.creds, college \in Colleges \cup {None} :
         LET user == authMiddleware(cred)
         IN  IF user = None
             THEN /\ resp' = Respond("updateProfile", cred, user, 0, 401, "Unauthorized")
                  /\ UNCHANGED <<profiles, resources>>
             ELSE IF user \notin DOMAIN profiles
             THEN /\ resp' = Respond("updateProfile", cred, user, 0, 500, "Store error")
                  /\ UNCHANGED <<profiles, resources>>
             ELSE /\ profiles' = IF college = None THEN profiles
                                 ELSE [profiles EXCEPT ![user] = college]
                  /\ resources' = [id \in DOMAIN resources |->
                                       IF resources[id].uploader_id = user /\ college # None
                                       THEN [resources[id] EXCEPT !.college = college]
                                       ELSE resources[id]]
                  /\ resp' = Respond("updateProfile", cred, user, 0, 200, None)
    /\ UNCHANGED <<reviews, nextResource, nextReview, pc, loc>>
    /\ RequestsUnchanged
    /\ ClockUnchanged

\* updateProfile: authMiddleware, and the update of the user's profile row
\* with the fields the body holds (college, or None for a body without it),
\* which fails when the user has no row.
UpdateProfile(in) ==
    /\ \E cred \in in.creds, college \in Colleges \cup {None} :
         LET user == authMiddleware(cred)
         IN  IF user = None
             THEN /\ resp' = Respond("updateProfile", cred, user, 0, 401, "Unauthorized")
                  /\ UNCHANGED profiles
             ELSE IF user \notin DOMAIN profiles
             THEN /\ resp' = Respond("updateProfile", cred, user, 0, 500, "Store error")
                  /\ UNCHANGED profiles
             ELSE /\ profiles' = IF college = None THEN profiles
                                 ELSE [profiles EXCEPT ![user] = college]
                  /\ resp' = Respond("updateProfile", cred, user, 0, 200, None)
    /\ UNCHANGED <<resources, reviews, nextResource, nextReview, pc, loc>>
    /\ RequestsUnchanged
    /\ ClockUnchanged

-----------------------------------------------------------------------------
\* leaderboardController: getLeaderboard.

\* The orders in which a select without "order by" may return the rows with
\* the keys of S.
Orderings(S) ==
    {seq \in [1..Cardinality(S) -> S] :
        \A i, j \in 1..Cardinality(S) : i # j => seq[i] # seq[j]}

\* Mutant: a private resource scored like a public one.
points_PrivacyIgnored(privacy) == 10

\* const points = item.privacy === "public" ? 10 : 5
points(privacy) == IF privacy = "public" THEN 10 ELSE 5

\* Mutant: the map entry overwritten by each item instead of added to.
RECURSIVE pointsByUser_Overwrites(_)
pointsByUser_Overwrites(items) ==
    IF items = <<>> THEN << >>
    ELSE LET before == pointsByUser_Overwrites(SubSeq(items, 1, Len(items) - 1))
             item == items[Len(items)]
         IN  [u \in DOMAIN before \cup {item.uploader_id} |->
                 IF u = item.uploader_id THEN points(item.privacy) ELSE before[u]]

\* pointsByUser after the loop over the rows of the resources select, in the
\* order the select returned them.
RECURSIVE pointsByUser(_)
pointsByUser(items) ==
    IF items = <<>> THEN << >>
    ELSE LET before == pointsByUser(SubSeq(items, 1, Len(items) - 1))
             item == items[Len(items)]
             sofar == IF item.uploader_id \in DOMAIN before
                      THEN before[item.uploader_id] ELSE 0
         IN  [u \in DOMAIN before \cup {item.uploader_id} |->
                 IF u = item.uploader_id THEN sofar + points(item.privacy) ELSE before[u]]

\* Array.prototype.sort with the comparator (a, b) => b.points - a.points:
\* descending by points, and stable, entries of equal points keeping the
\* order they had.
RECURSIVE InsertByPoints(_, _)
InsertByPoints(entry, sorted) ==
    IF sorted = <<>> THEN <<entry>>
    ELSE IF Head(sorted).points <= entry.points THEN <<entry>> \o sorted
    ELSE <<Head(sorted)>> \o InsertByPoints(entry, Tail(sorted))

\* Mutant: the comparator the other way round, (a, b) => a.points - b.points.
RECURSIVE InsertAscending(_, _)
InsertAscending(entry, sorted) ==
    IF sorted = <<>> THEN <<entry>>
    ELSE IF Head(sorted).points >= entry.points THEN <<entry>> \o sorted
    ELSE <<Head(sorted)>> \o InsertAscending(entry, Tail(sorted))

RECURSIVE sortByPoints_Ascending(_)
sortByPoints_Ascending(entries) ==
    IF entries = <<>> THEN <<>>
    ELSE InsertAscending(Head(entries), sortByPoints_Ascending(Tail(entries)))

RECURSIVE sortByPoints(_)
sortByPoints(entries) ==
    IF entries = <<>> THEN <<>>
    ELSE InsertByPoints(Head(entries), sortByPoints(Tail(entries)))

\* The leaderboard getLeaderboard computes from the rows of its two selects:
\* one entry per profile row with pointsByUser.get(profile.id) ?? 0, sorted.
leaderboard(profileIds, items) ==
    LET byUser == pointsByUser(items)
    IN  sortByPoints([i \in 1..Len(profileIds) |->
            [id |-> profileIds[i],
             points |-> IF profileIds[i] \in DOMAIN byUser THEN byUser[profileIds[i]] ELSE 0]])

\* The rows of the resources select, for the resource ids in the given order.
Items(ids) ==
    [i \in 1..Len(ids) |->
        [uploader_id |-> resources[ids[i]].uploader_id, privacy |-> resources[ids[i]].privacy]]

\* getLeaderboard: the select of the profiles, the select of the resources,
\* and the answer with the leaderboard.
GetLeaderboard ==
    /\ \E profileIds \in Orderings(DOMAIN profiles), ids \in Orderings(DOMAIN resources) :
         resp' = [Respond("getLeaderboard", None, None, 0, 200, None)
                     EXCEPT !.list = leaderboard(profileIds, Items(ids))]
    /\ UNCHANGED <<pc, loc>>
    /\ StoreUnchanged
    /\ ClockUnchanged

\* The rows the query of getReviewsForResource returns, as review ids: the
\* reviews of the resource by created_at descending; rows of one instant
\* come in any order.
ReviewResults(rid) ==
    LET ids == {row.id : row \in ReviewsOf(rid)}
        at(id) == (CHOOSE row \in reviews : row.id = id).created_at
        n == Cardinality(ids)
    IN  {seq \in [1..n -> ids] :
            /\ \A i, j \in 1..n : i # j => seq[i] # seq[j]
            /\ \A i, j \in 1..n : i < j => at(seq[i]) >= at(seq[j])}

\* getReviewsForResource: the check that the query string names a resource
\* (0 stands for a request without the parameter), and the query.  The route
\* is mounted without authMiddleware and the handler reads neither req.user
\* nor the resource.
GetReviewsForResource(in) ==
    /\ \E cred \in in.creds, resourceId \in ResourceIdInputs :
         LET userId == reqUser("getReviewsForResource", cred)
             answer == Respond("getReviewsForResource", cred, userId, resourceId, 200, None)
         IN  IF resourceId = 0
             THEN resp' = Respond("getReviewsForResource", cred, userId, resourceId, 400,
                                  "resourceId query parameter is required")
             ELSE \E data \in ReviewResults(resourceId) :
                      resp' = [answer EXCEPT !.list = data]
    /\ UNCHANGED <<pc, loc>>
    /\ StoreUnchanged
    /\ ClockUnchanged

\* The store once A has uploaded one public resource.
InitReviews ==
    /\ profiles = SignedUp
    /\ now = 0
    /\ ticks = 0
    /\ resources = (1 :> NewResource("A", "public"))
    /\ reviews = {}
    /\ requests = << >>
    /\ nextResource = 1
    /\ nextReview = 0
    /\ nextRequest = 0
    /\ pc = [w \in Workers |-> "idle"]
    /\ loc = [w \in Workers |-> IdleLoc]
    /\ resp = NoResp

\* The review requests of one worker, their inputs drawn from in: the
\* credentials and ratings requests carry, and whether a call of
\* refreshResourceRating may fail.
ReviewStep(w, in) ==
    \/ CreateReviewCheck(w, in)
    \/ CreateReviewInsert(w)
    \/ UpdateReviewCheck(w, in)
    \/ UpdateReviewWrite(w)
    \/ DeleteReviewCheck(w, in)
    \/ DeleteReviewWrite(w)
    \/ RefreshRead(w, in)
    \/ RefreshWrite(w, in)

\* Review requests served one at a time, the store answering every call.
SeqInputs == [creds |-> {"A", "B", "C"}, ratings |-> RatingInputs, faults |-> {FALSE}]
NextSeq == ReviewStep(1, SeqInputs)
SpecSeq == InitReviews /\ [][NextSeq]_vars

\* Review requests of A and B served by all workers at once, the store
\* answering every call.
ConcInputs == [creds |-> {"A", "B"}, ratings |-> {2, 5}, faults |-> {FALSE}]
NextConc == \E w \in Workers : ReviewStep(w, ConcInputs)
SpecConc == InitReviews /\ [][NextConc]_vars

\* Review requests of A and B served one at a time, the calls of
\* refreshResourceRating failing or not.
FaultInputs == [creds |-> {"A", "B"}, ratings |-> {2, 5}, faults |-> BOOLEAN]
NextFault == ReviewStep(1, FaultInputs)
SpecFault == InitReviews /\ [][NextFault]_vars

\* The store one second after the start, A having uploaded one public
\* resource at the start or just now.
InitLock ==
    /\ profiles = SignedUp
    /\ ticks = 1
    /\ now = Instant(1)
    /\ \E t0 \in {Instant(0), Instant(1)} :
         resources = (1 :> [NewResource("A", "public") EXCEPT !.created_at = t0])
    /\ reviews = {}
    /\ requests = << >>
    /\ nextResource = 1
    /\ nextReview = 0
    /\ nextRequest = 0
    /\ pc = [w \in Workers |-> "idle"]
    /\ loc = [w \in Workers |-> IdleLoc]
    /\ resp = NoResp

\* Updates and deletes by A and B of A's resource and of the reviews B
\* writes, served one at a time while the clock advances, also between the
\* round trips of a review request.
LockInputs == [creds |-> {"A", "B"}, ratings |-> {5}, faults |-> {FALSE}]
ReviewerInputs == [creds |-> {"B"}, ratings |-> {5}, faults |-> {FALSE}]
NextLock ==
    \/ CreateReviewCheck(1, ReviewerInputs)
    \/ CreateReviewInsert(1)
    \/ UpdateReviewCheck(1, LockInputs)
    \/ UpdateReviewWrite(1)
    \/ DeleteReviewCheck(1, LockInputs)
    \/ DeleteReviewWrite(1)
    \/ RefreshRead(1, LockInputs)
    \/ RefreshWrite(1, LockInputs)
    \/ UpdateResource(LockInputs)
    \/ DeleteResource(LockInputs)
    \/ Tick
SpecLock == InitLock /\ [][NextLock]_vars

\* The requests for resources of A (college X) and C (college Y), with the
\* uploads and edits of A and the profile updates of C, served one at a time.
RequestInputs == [creds |-> {"A", "C"}]
UploadInputs == [creds |-> {"A"}]
ProfileInputs == [creds |-> {"C"}]
NextRequests ==
    \/ CreateRequest(RequestInputs)
    \/ FulfillRequest(RequestInputs)
    \/ CreateResource(UploadInputs)
    \/ UpdateResource(UploadInputs)
    \/ DeleteResource(UploadInputs)
    \/ UpdateProfile(ProfileInputs)
SpecRequests == Init /\ [][NextRequests]_vars

\* The resource requests, served one at a time.
ReadInputs == [creds |-> Credentials]
Next ==
    \/ CreateResource(ReadInputs)
    \/ UpdateResource(ReadInputs)
    \/ DeleteResource(ReadInputs)
    \/ GetResources(ReadInputs)
    \/ GetResourceById(ReadInputs)
    \/ GetLeaderboard
Spec == Init /\ [][Next]_vars

\* Every route that writes, called with a valid credential: the uploader A
\* uploads, edits, deletes, asks and fulfils; C, of another college, reviews
\* and changes their profile.
OwnerInputs == [creds |-> {"A"}]
OutsiderInputs == [creds |-> {"C"}, ratings |-> {5}, faults |-> {FALSE}]
NextWrites ==
    \/ ReviewStep(1, OutsiderInputs)
    \/ CreateResource(OwnerInputs)
    \/ UpdateResource(OwnerInputs)
    \/ DeleteResource(OwnerInputs)
    \/ CreateRequest(OwnerInputs)
    \/ FulfillRequest(OwnerInputs)
    \/ UpdateProfile(OutsiderInputs)
SpecWrites == Init /\ [][NextWrites]_vars

\* The uploader A uploads, edits and deletes resources and changes their
\* profile in between.
NextAffiliation ==
    \/ CreateResource(OwnerInputs)
    \/ UpdateResource(OwnerInputs)
    \/ DeleteResource(OwnerInputs)
    \/ UpdateProfile(OwnerInputs)
SpecAffiliation == Init /\ [][NextAffiliation]_vars

\* Every route that writes, called without a valid credential, on a store
\* that A fills with resources and a request and C with reviews.
Unauthenticated == {None, BadToken}
AnonymousInputs == [creds |-> Unauthenticated, ratings |-> {5}, faults |-> {FALSE}]
UploaderOrAnonymous == [creds |-> {"A"} \cup Unauthenticated]
ReviewerOrAnonymous ==
    [creds |-> {"C"} \cup Unauthenticated, ratings |-> {5}, faults |-> {FALSE}]
NextAnonymous ==
    \/ CreateResource(UploaderOrAnonymous)
    \/ CreateRequest(UploaderOrAnonymous)
    \/ CreateReviewCheck(1, ReviewerOrAnonymous)
    \/ CreateReviewInsert(1)
    \/ RefreshRead(1, AnonymousInputs)
    \/ RefreshWrite(1, AnonymousInputs)
    \/ UpdateReviewCheck(1, AnonymousInputs)
    \/ DeleteReviewCheck(1, AnonymousInputs)
    \/ UpdateResource(AnonymousInputs)
    \/ DeleteResource(AnonymousInputs)
    \/ FulfillRequest(AnonymousInputs)
    \/ UpdateProfile(AnonymousInputs)
SpecAnonymous == Init /\ [][NextAnonymous]_vars

\* Uploads by A at different instants, and list queries with and without a
\* credential.
ListInputs == [creds |-> {"A", None}]
NextList ==
    \/ CreateResource(OwnerInputs)
    \/ GetResources(ListInputs)
    \/ Tick
SpecList == Init /\ [][NextList]_vars

\* Uploads by A, public and private; reviews by B, of A's college, and by C,
\* of another; and listings of the reviews with and without a credential.
ColleagueOrOutsider == [creds |-> {"B", "C"}, ratings |-> {5}, faults |-> {FALSE}]
ReviewReaders == [creds |-> {"B", "C", None}]
NextPrivate ==
    \/ CreateResource(OwnerInputs)
    \/ ReviewStep(1, ColleagueOrOutsider)
    \/ GetReviewsForResource(ReviewReaders)
SpecPrivate == Init /\ [][NextPrivate]_vars

\* The two read handlers applied to every viewer, present or not, with and
\* without a profile college, on the resources A and C upload.
ViewerInputs == [viewers |-> Users \cup {None}]
TwoUploaders == [creds |-> {"A", "C"}]
NextReads ==
    \/ CreateResource(TwoUploaders)
    \/ ReadBoth(ViewerInputs)
SpecReads == Init /\ [][NextReads]_vars

\* The recomputation that ends the createReview of the last of n reviewers of
\* resource 1, for every n up to MaxRaters and every multiset of ratings: the
\* reviewers are users of their own ("1", "2", ...), one review each, and the
\* resource holds the aggregate the recomputation before gave.
Raters(n) == {ToString(i) : i \in 1..n}

RECURSIVE SumOver(_, _)
SumOver(r, count) == IF r = 0 THEN 0 ELSE count[r] + SumOver(r - 1, count)

\* The rating of the i-th reviewer when count[r] reviewers gave rating r and
\* the reviewers are taken in the order of their ratings.
RatingAt(i, count) ==
    CHOOSE r \in 1..5 :
        /\ i > SumOver(r - 1, count)
        /\ i <= SumOver(r, count)

RatedReviews(n, count) ==
    {[id |-> i, resource_id |-> 1, user_id |-> ToString(i),
      rating |-> RatingAt(i, count), created_at |-> 0] : i \in 1..n}

InitRated ==
    \E n1 \in 0..MaxRaters :
    \E n2 \in 0..(MaxRaters - n1) :
    \E n3 \in 0..(MaxRaters - n1 - n2) :
    \E n4 \in 0..(MaxRaters - n1 - n2 - n3) :
    \E n5 \in 0..(MaxRaters - n1 - n2 - n3 - n4) :
        LET count == <<n1, n2, n3, n4, n5>>
            n == SumOver(5, count)
            rows == RatedReviews(n, count)
            before == [error |-> FALSE, rows |-> {row \in rows : row.id < n}]
        IN  /\ n >= 1
            /\ profiles = SignedUp @@ [u \in Raters(n) |-> "X"]
            /\ now = 0
            /\ ticks = 0
            /\ resources = (1 :> [NewResource("A", "public") EXCEPT
                                    !.average_rating = averageRating(before),
                                    !.total_ratings = totalRatings(before)])
            /\ reviews = rows
            /\ requests = << >>
            /\ nextResource = 1
            /\ nextReview = n
            /\ nextRequest = 0
            /\ pc = [w \in Workers |-> IF w = 1 THEN "ref_read" ELSE "idle"]
            /\ loc = [w \in Workers |->
                        IF w = 1
                        THEN [IdleLoc EXCEPT !.op = "createReview", !.cred = ToString(n),
                                             !.user = ToString(n), !.rid = 1, !.revid = n,
                                             !.body = <<RatingAt(n, count)>>]
                        ELSE IdleLoc]
            /\ resp = NoResp

RatedInputs == [faults |-> {FALSE}]
NextRated == RefreshRead(1, RatedInputs) \/ RefreshWrite(1, RatedInputs)
SpecRated == InitRated /\ [][NextRated]_vars

-----------------------------------------------------------------------------
\* Properties.

\* The mean of the ratings of rows rounded half-up to one decimal, in tenths,
\* and 0 for no rows.
HalfUpMean(rows) ==
    IF rows = {} THEN 0
    ELSE (20 * SumRatings(rows) + Cardinality(rows)) \div (2 * Cardinality(rows))

\* The stored aggregate of every resource is the one its current reviews give.
AggregatesCurrent ==
    \A id \in DOMAIN resources :
        /\ resources[id].average_rating = HalfUpMean(ReviewsOf(id))
        /\ resources[id].total_ratings = Cardinality(ReviewsOf(id))

ReviewMutations == {"createReview", "updateReview", "deleteReview"}
ResourceReads == {"getResources", "getResourceById"}

\* The ids of the list the response holds.
Listed == {resp.list[i] : i \in 1..Len(resp.list)}

\* The visibility policy of a private row for the identity a credential
\* stands for: its uploader, or a user whose profile college is the row's.
MayViewPrivate(user, row) ==
    user \in Users /\ (user = row.uploader_id \/ CollegeOf(user) = row.college)

\* C1: Under any interleaving of createReview requests, two by the same
\* reviewer for the same resource that both pass the pre-check included, the
\* store holds at most one review for each (resource, reviewer) pair.
C1_OneReviewPerPair ==
    \A r1, r2 \in reviews :
        (r1.resource_id = r2.resource_id /\ r1.user_id = r2.user_id) => r1 = r2

\* C1 witness: a createReview that had passed the pre-check is rejected by the
\* store at insert time, the pair's review being there by then.
C1_Witness ==
    /\ resp.op = "createReview"
    /\ resp.status = 500
    /\ \E row \in reviews : row.resource_id = resp.arg /\ row.user_id = resp.viewer

\* C2: A createReview by a viewer for a resource the viewer has already
\* reviewed is answered with the conflict outcome (409), whether the duplicate
\* is found by the pre-check or by the store at insert time.
C2_DuplicateIsConflict ==
    ( /\ resp.op = "createReview"
      /\ resp.status \notin {201, 400, 401}
      /\ \E row \in reviews : row.resource_id = resp.arg /\ row.user_id = resp.viewer )
    => resp.status = 409

\* C3: With review requests served one after the other and the store
\* answering every call, whenever no request is in progress every resource's
\* average_rating is the mean of its reviews' ratings rounded to one decimal
\* and its total_ratings is their number, both 0 without reviews.
C3_AggregateAfterSequentialOps == pc[1] = "idle" => AggregatesCurrent

\* C3 witness: an update has completed that leaves two reviews with mean 4.0.
C3_Witness ==
    /\ resp.op = "updateReview"
    /\ resp.status = 200
    /\ 1 \in DOMAIN resources
    /\ resources[1].total_ratings = 2
    /\ resources[1].average_rating = 40

\* C4: When review requests of different reviewers on one resource overlap,
\* then once all of them have returned the stored aggregate of the resource is
\* the one its reviews give.
C4_AggregateAfterConcurrentOps ==
    (\A w \in Workers : pc[w] = "idle") => AggregatesCurrent

\* C5: A review request whose aggregate recomputation fails does not return
\* success: whenever createReview, updateReview or deleteReview answers with
\* success, the stored aggregates are current.
C5_NoSuccessWithStaleAggregate ==
    (resp.op \in ReviewMutations /\ resp.status \in {200, 201}) => AggregatesCurrent

\* C6: For a private resource and a viewer with a valid credential, the list
\* query holds the resource, and the single fetch returns it, exactly when the
\* viewer is its uploader or of its college.
C6_PrivateForOwnerAndCollege ==
    /\ (resp.op = "getResourceById" /\ resp.cred \in Users /\ resp.arg \in DOMAIN resources
            /\ resources[resp.arg].privacy = "private")
        => (resp.status = 200 <=> MayViewPrivate(resp.cred, resources[resp.arg]))
    /\ (resp.op = "getResources" /\ resp.cred \in Users)
        => \A id \in DOMAIN resources :
             (resources[id].privacy = "private" /\ resp.query # "public")
             => (id \in Listed <=> MayViewPrivate(resp.cred, resources[id]))

\* C7: A request without a valid credential is never given a private
\* resource: the list query holds none, and the single fetch of one answers
\* access denied (403).
C7_AnonymousNeverSeesPrivate ==
    /\ (resp.op = "getResources" /\ resp.cred \notin Users)
        => \A id \in Listed : resources[id].privacy # "private"
    /\ (resp.op = "getResourceById" /\ resp.cred \notin Users
            /\ resp.arg \in DOMAIN resources /\ resources[resp.arg].privacy = "private")
        => resp.status = 403

\* C7 witness: the fetch of a private resource without a credential was
\* answered 403.
C7_Witness ==
    /\ resp.op = "getResourceById"
    /\ resp.cred = None
    /\ resp.arg \in DOMAIN resources
    /\ resources[resp.arg].privacy = "private"
    /\ resp.status = 403

\* C8: A public resource is given to every viewer, the anonymous one and one
\* without a profile included: the list query holds it when it matches the
\* query's filter, and the single fetch answers 200.
C8_PublicForEveryone ==
    /\ resp.op = "getResources"
        => \A id \in DOMAIN resources :
             (resources[id].privacy = "public" /\ resp.query # "private") => id \in Listed
    /\ (resp.op = "getResourceById" /\ resp.arg \in DOMAIN resources
            /\ resources[resp.arg].privacy = "public")
        => resp.status = 200

\* C8 witness: a list query carrying the credential of D, who has no profile,
\* was answered with a public resource in the list.
C8_Witness ==
    /\ resp.op = "getResources"
    /\ resp.cred = "D"
    /\ \E id \in Listed : resources[id].privacy = "public"

\* C9: A resource read that carries a valid credential is evaluated for the
\* identity the credential resolves to.
C9_ReadsResolveIdentity ==
    (resp.op \in ResourceReads /\ resp.cred \in Users) => resp.viewer = resp.cred

\* C10: The single fetch answers not found (404) exactly when the id matches
\* no resource, and access denied (403) exactly when the resource exists and
\* the viewer the handler evaluates may not see it.
C10_DeniedIsNotNotFound ==
    resp.op = "getResourceById" =>
        /\ (resp.status = 404 <=> resp.arg \notin DOMAIN resources)
        /\ (resp.status = 403 <=>
               /\ resp.arg \in DOMAIN resources
               /\ resources[resp.arg].privacy = "private"
               /\ ~MayViewPrivate(resp.viewer, resources[resp.arg]))

\* C10 witness: the fetch of an existing private resource was answered 403.
C10_Witness ==
    /\ resp.op = "getResourceById"
    /\ resp.arg \in DOMAIN resources
    /\ resp.status = 403

-----------------------------------------------------------------------------
\* The 24-hour lock and the owner check.

ResourceMutations == {"updateResource", "deleteResource"}
ReviewEdits == {"updateReview", "deleteReview"}

\* The step answers a well-formed update or delete of an existing resource.
ResourceDecision ==
    /\ resp'.op \in ResourceMutations
    /\ resp'.viewer \in Users
    /\ resp'.status # 400
    /\ resp'.arg \in DOMAIN resources

\* The step is the decision of worker w's updateReview or deleteReview: the
\* request is refused with an answer, or goes on to its write.
ReviewGranted(w) == pc[w] = "idle" /\ pc'[w] \in {"upd_write", "del_write"}
ReviewRefused(w) ==
    /\ pc[w] = "idle" /\ pc'[w] = "idle"
    /\ resp'.op \in ReviewEdits
    /\ resp'.viewer \in Users
    /\ resp'.status \in {403, 404}

\* The user and the review id of the request decided in the step.
DecidedUser(w) == IF ReviewGranted(w) THEN loc'[w].user ELSE resp'.viewer
DecidedReview(w) == IF ReviewGranted(w) THEN loc'[w].revid ELSE resp'.arg

\* The review with the given id before the step.
ReviewRow(id) == CHOOSE row \in reviews : row.id = id

LockExpiredAnswer ==
    /\ resp'.status = 403
    /\ resp'.error = "Lock expired"
    /\ resources' = resources
    /\ reviews' = reviews

NotOwnerAnswer ==
    /\ resp'.status = 403
    /\ resp'.error = "Not owner"
    /\ resources' = resources
    /\ reviews' = reviews

C11_Step ==
    /\ (ResourceDecision /\ resources[resp'.arg].uploader_id = resp'.viewer)
        => IF now - resources[resp'.arg].created_at <= 24 * 60 * 60 * 1000
           THEN resp'.status = 200
           ELSE LockExpiredAnswer
    /\ \A w \in Workers :
         ( /\ ReviewGranted(w) \/ ReviewRefused(w)
           /\ \E row \in reviews : row.id = DecidedReview(w)
           /\ ReviewRow(DecidedReview(w)).user_id = DecidedUser(w) )
         => IF now - ReviewRow(DecidedReview(w)).created_at <= 24 * 60 * 60 * 1000
            THEN ReviewGranted(w)
            ELSE ReviewRefused(w) /\ LockExpiredAnswer

\* C11: A well-formed update or delete of a resource or a review by its owner
\* at time now is allowed exactly when now - created_at <= 24 hours, and is
\* refused as lock expired, the store unchanged, exactly when now - created_at
\* > 24 hours.
C11_LockAtTwentyFourHours == [][C11_Step]_vars

\* C11 witness: a review update by the reviewer one second after the window
\* closed was refused as lock expired.
C11_Witness ==
    /\ resp.op = "updateReview"
    /\ resp.error = "Lock expired"
    /\ \E row \in reviews :
         /\ row.id = resp.arg
         /\ row.user_id = resp.viewer
         /\ now - row.created_at = 24 * 60 * 60 * 1000 + 1000

C12_Step ==
    /\ (ResourceDecision /\ resources[resp'.arg].uploader_id # resp'.viewer)
        => NotOwnerAnswer
    /\ \A w \in Workers :
         ( /\ ReviewGranted(w) \/ ReviewRefused(w)
           /\ \E row \in reviews : row.id = DecidedReview(w)
           /\ ReviewRow(DecidedReview(w)).user_id # DecidedUser(w) )
         => ReviewRefused(w) /\ NotOwnerAnswer

\* C12: A well-formed update or delete of an existing resource or review by
\* an authenticated user who is not its owner is refused as not owner, inside
\* the window and after it, and leaves the resources and the reviews as they
\* were.
C12_NotOwnerWhateverTheTime == [][C12_Step]_vars

\* C12 witness: the delete of a review older than 24 hours by another user
\* was refused as not owner.
C12_Witness ==
    /\ resp.op = "deleteReview"
    /\ resp.error = "Not owner"
    /\ \E row \in reviews :
         /\ row.id = resp.arg
         /\ row.user_id # resp.viewer
         /\ now - row.created_at > 24 * 60 * 60 * 1000

C13_Step ==
    /\ \A id \in DOMAIN resources \cap DOMAIN resources' :
         resources'[id].created_at = resources[id].created_at
    /\ \A old \in reviews, new \in reviews' :
         old.id = new.id => new.created_at = old.created_at

\* C13: No step changes the created_at of a resource or a review, a
\* successful update included, so the lock is decided on the time of creation.
C13_CreatedAtUnchanged == [][C13_Step]_vars

\* C13 witness: A's first resource, uploaded public, has been made private by
\* an update, and a later update of it was refused as lock expired.
C13_Witness ==
    /\ resp.op = "updateResource"
    /\ resp.arg = 1
    /\ resp.error = "Lock expired"
    /\ 1 \in DOMAIN resources
    /\ resources[1].privacy = "private"

-----------------------------------------------------------------------------
\* The leaderboard.

\* The entries of the list the response holds.
Entries(list) == {list[i] : i \in 1..Len(list)}

\* The resources a user owns with the given privacy.
Owned(user, privacy) ==
    {id \in DOMAIN resources :
        resources[id].uploader_id = user /\ resources[id].privacy = privacy}

C15_DescendingByPoints ==
    resp.op = "getLeaderboard" =>
        \A i \in 1..(Len(resp.list) - 1) : resp.list[i].points >= resp.list[i + 1].points

\* C15 witness: a leaderboard whose entries have three different scores.
C15_Witness ==
    /\ resp.op = "getLeaderboard"
    /\ Cardinality({e.points : e \in Entries(resp.list)}) = 3

\* C16: Whatever the order in which the profiles and the resources are read,
\* the leaderboard holds the same (profile, points) pairs.
C16_PointsIndependentOfOrder ==
    LET profileIds0 == CHOOSE seq \in Orderings(DOMAIN profiles) : TRUE
        ids0 == CHOOSE seq \in Orderings(DOMAIN resources) : TRUE
    IN  \A profileIds \in Orderings(DOMAIN profiles), ids \in Orderings(DOMAIN resources) :
            Entries(leaderboard(profileIds, Items(ids)))
                = Entries(leaderboard(profileIds0, Items(ids0)))

\* C16 witness: two leaderboards of one store differ in the order of tied
\* entries while a profile owns a public and a private resource.
C16_Witness ==
    /\ resp.op = "getLeaderboard"
    /\ \E u \in DOMAIN profiles : Owned(u, "public") # {} /\ Owned(u, "private") # {}
    /\ \E profileIds \in Orderings(DOMAIN profiles) :
         leaderboard(profileIds, Items(CHOOSE seq \in Orderings(DOMAIN resources) : TRUE))
             # resp.list

-----------------------------------------------------------------------------
\* The requests.

C17_Step ==
    /\ \A q \in DOMAIN requests' \ DOMAIN requests : requests'[q].status = "open"
    /\ \A q \in DOMAIN requests :
         requests[q].status = "fulfilled"
         => (q \in DOMAIN requests' /\ requests'[q].status = "fulfilled")

\* C17: A request is created with status open, and no step takes a fulfilled
\* request back to open or away: fulfil, fulfil again, resource create,
\* update and delete, profile update.
C17_FulfilledStaysFulfilled == [][C17_Step]_vars

\* C17 witness: a request is still fulfilled after the resource it was
\* fulfilled by has been deleted.
C17_Witness ==
    \E q \in DOMAIN requests :
        requests[q].status = "fulfilled" /\ requests[q].fulfilled_resource_id = 0

\* The response answers a fulfil request of an authenticated user whose body
\* holds a resourceId.
FulfilAnswered ==
    /\ resp.op = "fulfillRequest"
    /\ resp.viewer \in Users
    /\ resp.resource # 0

\* The request of the response is fulfilled by the resource of its body.
FulfilApplied ==
    /\ resp.status = 200
    /\ requests[resp.arg].status = "fulfilled"
    /\ requests[resp.arg].fulfilled_resource_id = resp.resource

\* C18: A fulfil request whose id matches no request is answered not found
\* (404), not success.
C18_UnknownRequestNotFound ==
    (FulfilAnswered /\ resp.arg \notin DOMAIN requests) => resp.status = 404

\* C19: A fulfil of an existing request by any authenticated user, the
\* request open or fulfilled, is answered with success and leaves the request
\* fulfilled by the resourceId of the body.
C19_FulfilAlwaysApplied ==
    (FulfilAnswered /\ resp.arg \in DOMAIN requests) => FulfilApplied

\* C19 as amended: a fulfil of an existing request by any authenticated user,
\* the request open or fulfilled, with the id of an existing resource is
\* answered with success and leaves the request fulfilled by that resource.
C19_FulfilWithExistingResourceApplied ==
    (FulfilAnswered /\ resp.arg \in DOMAIN requests /\ resp.resource \in DOMAIN resources)
    => FulfilApplied

\* C19 witness: a user who is not the requester has fulfilled a request with
\* the second resource.
C19_Witness ==
    /\ FulfilAnswered
    /\ resp.arg \in DOMAIN requests
    /\ resp.viewer # requests[resp.arg].requester_id
    /\ resp.resource = 2
    /\ FulfilApplied

\* The requester of the request may not see the resource with the given id.
HiddenFromRequester(q, id) ==
    /\ id \in DOMAIN resources
    /\ resources[id].privacy = "private"
    /\ ~MayViewPrivate(requests[q].requester_id, resources[id])

\* C20: A fulfil of an existing request is answered with success and applied
\* also when the resourceId of the body is the id of no resource, or of a
\* resource the requester may not see.
C20_ResourceIdNotValidated ==
    ( /\ FulfilAnswered
      /\ resp.arg \in DOMAIN requests
      /\ resp.resource \notin DOMAIN resources \/ HiddenFromRequester(resp.arg, resp.resource) )
    => FulfilApplied

C20_Step ==
    ( /\ resp'.op = "fulfillRequest"
      /\ resp'.viewer \in Users
      /\ resp'.resource # 0
      /\ resp'.arg \in DOMAIN requests )
    => IF resp'.resource \in DOMAIN resources
       THEN /\ resp'.status = 200
            /\ requests'[resp'.arg].status = "fulfilled"
            /\ requests'[resp'.arg].fulfilled_resource_id = resp'.resource
       ELSE /\ resp'.status = 500
            /\ requests' = requests

\* C20 as amended: a fulfil of an existing request with the id of an existing
\* resource is answered with success and applied, whether or not the
\* requester may see the resource; with the id of no resource it is answered
\* with a store error and leaves the request as it was.
C20_OnlyExistenceValidated == [][C20_Step]_vars

\* C20 witness: a request has been fulfilled by a private resource its
\* requester may not see.
C20_Witness ==
    /\ FulfilAnswered
    /\ resp.arg \in DOMAIN requests
    /\ HiddenFromRequester(resp.arg, resp.resource)
    /\ FulfilApplied

\* ---------------------------------------------------------------------------
\* Validation of the rating.

\* The review requests of an authenticated user whose body carries a rating
\* outside 1..5, as answered by the step just taken.
InvalidRatingAnswered ==
    /\ resp.op \in {"createReview", "updateReview"}
    /\ resp.viewer # None
    /\ resp.body # <<>>
    /\ resp.body[1] \notin 1..5

StoredRatingsValid == \A row \in reviews : row.rating \in 1..5

\* No request that passed its validation is about to write a rating outside
\* 1..5.
PendingRatingsValid ==
    \A w \in Workers :
        pc[w] \in {"cr_insert", "upd_write"} /\ loc[w].body # <<>>
            => loc[w].body[1] \in 1..5

C21_Step ==
    /\ InvalidRatingAnswered' =>
            /\ resp'.status = 400
            /\ reviews' = reviews
            /\ resources' = resources
    /\ \A w \in Workers :
            pc[w] = "idle" /\ pc'[w] # "idle" /\ loc'[w].body # <<>>
                => loc'[w].body[1] \in 1..5

\* C21: createReview and updateReview with a rating outside 1..5 answer 400
\* (validation failed) without creating or changing a review or an aggregate,
\* no such request gets past its validation, and every stored review has a
\* rating in 1..5.
C21_InvalidRatingRefused == []StoredRatingsValid /\ [][C21_Step]_vars

\* Both operations have refused a rating outside 1..5 while a review is stored.
C21_Witness ==
    /\ InvalidRatingAnswered
    /\ resp.op = "updateReview"
    /\ resp.status = 400
    /\ reviews # {}

\* ---------------------------------------------------------------------------
\* The reference of a request to the resource that fulfilled it.

OpenHasNoResource ==
    \A id \in DOMAIN requests :
        requests[id].status = "open" => requests[id].fulfilled_resource_id = 0

\* The reference goes from null to a resource only in a fulfillRequest step
\* on that request, which leaves it fulfilled by the resource of the body.
C22_Step ==
    \A id \in DOMAIN requests :
        requests[id].fulfilled_resource_id = 0
            /\ requests'[id].fulfilled_resource_id # 0
        => /\ resp'.op = "fulfillRequest"
           /\ resp'.arg = id
           /\ resp'.status = 200
           /\ requests'[id].status = "fulfilled"
           /\ requests'[id].fulfilled_resource_id = resp'.resource

\* C22: an open request has no fulfilled_resource_id, and the column goes
\* from null to a resource id only in the fulfillRequest step that writes
\* status fulfilled on the request.
C22_ResourceSetOnlyByFulfil == []OpenHasNoResource /\ [][C22_Step]_vars

\* A fulfil has just set the reference of a request.
C22_Witness ==
    /\ resp.op = "fulfillRequest"
    /\ resp.status = 200
    /\ resp.arg \in DOMAIN requests
    /\ requests[resp.arg].status = "fulfilled"
    /\ requests[resp.arg].fulfilled_resource_id = resp.resource
    /\ resp.resource # 0

\* ---------------------------------------------------------------------------
\* A recomputation whose read of the reviews failed.

\* Worker w is about to write the aggregates of a recomputation whose read
\* returned no rows although the resource has reviews.  With one worker the
\* reviews are those of the time of the read, so the read failed.
ReadFailed(w) ==
    /\ pc[w] = "ref_write"
    /\ loc[w].total = 0
    /\ ReviewsOf(loc[w].rid) # {}

C29_Step ==
    \A w \in Workers :
        ReadFailed(w) /\ pc'[w] = "idle" => resources' = resources

\* C29: a recomputation whose read of the reviews fails leaves the stored
\* average_rating and total_ratings unchanged; it does not write 0 and 0 to a
\* resource that still has reviews.
C29_FailedReadLeavesAggregates == [][C29_Step]_vars

\* ---------------------------------------------------------------------------
\* The rounding of the stored average.

\* C23: after a recomputation the stored average_rating is the exact mean of
\* the ratings rounded half up to one decimal: in tenths,
\* (20 * sum + count) \div (2 * count), also when the mean ends in 5
\* hundredths (sum 23 over 20 reviews, mean 1.15, gives 1.2).
C23_AverageRoundedHalfUp ==
    (resp.op \in ReviewMutations /\ resp.status \in {200, 201} /\ resp.arg \in DOMAIN resources)
        => LET rows == ReviewsOf(resp.arg)
           IN  rows # {} =>
                   resources[resp.arg].average_rating
                       = (20 * SumRatings(rows) + Cardinality(rows)) \div (2 * Cardinality(rows))

\* ---------------------------------------------------------------------------
\* The columns a resource keeps from its creation and from recomputations.

\* The step is the update that ends a recomputation for resource id.
Recomputes(id) ==
    \E w \in Workers : pc[w] = "ref_write" /\ pc'[w] = "idle" /\ loc[w].rid = id

C24_Step ==
    /\ \A id \in DOMAIN resources \cap DOMAIN resources' :
           \/ Recomputes(id)
           \/ /\ resources'[id].average_rating = resources[id].average_rating
              /\ resources'[id].total_ratings = resources[id].total_ratings
    /\ \A id \in DOMAIN resources' \ DOMAIN resources :
           /\ resources'[id].average_rating = 0
           /\ resources'[id].total_ratings = 0

\* C24: average_rating and total_ratings are written by the recomputation
\* only: createResource leaves them at 0 and 0, and every other step
\* (updateResource whatever its body holds, the review handlers up to their
\* recomputation, fulfil, profile updates, requests) leaves them as they are.
C24_AggregatesWrittenByRecomputationOnly == [][C24_Step]_vars

\* updateResource has been applied to a resource that has a review counted.
C24_Witness ==
    /\ resp.op = "updateResource"
    /\ resp.status = 200
    /\ resp.arg \in DOMAIN resources
    /\ resources[resp.arg].total_ratings = 1
    /\ resources[resp.arg].average_rating = 50
    /\ resources[resp.arg].privacy = "private"

\* The viewers the policy admits to a private row, by the college the row
\* holds.
AdmittedByRowCollege(row, colleges) ==
    {u \in DOMAIN colleges : u = row.uploader_id \/ colleges[u] = row.college}

C25_Step ==
    /\ \A id \in DOMAIN resources \cap DOMAIN resources' :
           resources'[id].college = resources[id].college
    /\ \A id \in DOMAIN resources' \ DOMAIN resources :
           resources'[id].college = profiles[resources'[id].uploader_id]
    /\ \A id \in DOMAIN resources' :
           resources'[id].privacy = "private" =>
               /\ {u \in DOMAIN profiles' : visible(u, profiles'[u], resources'[id])}
                      = AdmittedByRowCollege(resources'[id], profiles')
               /\ {u \in DOMAIN profiles' : allowed(u, profiles'[u], resources'[id])}
                      = AdmittedByRowCollege(resources'[id], profiles')

\* C25: the college of a resource is its uploader's profile college at the
\* time of the upload and no later step changes it, neither a change of the
\* uploader's profile nor an updateResource whatever its body holds; the
\* policy for a private resource is decided against that stored college.
C25_CollegeFixedAtCreation == [][C25_Step]_vars

\* The uploader has changed college after uploading a resource that is
\* private, and updateResource has been applied to it since.
C25_Witness ==
    /\ resp.op = "updateResource"
    /\ resp.status = 200
    /\ resp.arg \in DOMAIN resources
    /\ resources[resp.arg].privacy = "private"
    /\ resources[resp.arg].college # profiles[resources[resp.arg].uploader_id]

\* ---------------------------------------------------------------------------
\* Requests without a valid credential.

WritingRoutes == ProtectedRoutes \cup {"updateProfile"}

C28_Step ==
    /\ (resp'.op \in WritingRoutes /\ resp'.cred \notin Users) =>
           /\ resp'.status = 401
           /\ UNCHANGED <<profiles, resources, reviews, requests>>
    /\ \A w \in Workers :
           pc[w] = "idle" /\ pc'[w] # "idle" => loc'[w].cred \in Users

\* C28: a request to a writing route that carries no credential, or one the
\* identity provider rejects, is answered 401 and leaves profiles, resources
\* (their aggregates included), reviews and requests unchanged, and no review
\* handler gets past its first check for it.
C28_NoWriteWithoutCredential == [][C28_Step]_vars

\* A delete of an existing resource has been refused for a rejected token
\* while reviews and a request are stored.
C28_Witness ==
    /\ resp.op = "deleteResource"
    /\ resp.cred = BadToken
    /\ resp.status = 401
    /\ resp.arg \in DOMAIN resources
    /\ ReviewsOf(resp.arg) # {}
    /\ requests # << >>

\* ---------------------------------------------------------------------------
\* The list query: order and visibility filter.

\* The rows the query of the answered list request selects, and those of
\* them the policy admits for the viewer the handler evaluates.
Candidates ==
    {id \in DOMAIN resources : resp.query = None \/ resources[id].privacy = resp.query}
Passing ==
    {id \in Candidates :
        resources[id].privacy = "public" \/ MayViewPrivate(resp.viewer, resources[id])}

Inserted == {row \in reviews' : \A old \in reviews : old.id # row.id}

C30_Step ==
    /\ \A row \in Inserted :
           resources[row.resource_id].privacy = "private"
               => MayViewPrivate(row.user_id, resources[row.resource_id])
    /\ (/\ resp'.op = "getReviewsForResource"
        /\ resp'.arg \in DOMAIN resources
        /\ resources[resp'.arg].privacy = "private"
        /\ ~MayViewPrivate(resp'.viewer, resources[resp'.arg]))
           => resp'.list = << >>

\* C30: a review of a private resource is created only for its uploader or
\* a user of its college, and the reviews of a private resource are listed
\* only for such a viewer; any other viewer, the anonymous one included, is
\* given no review.
C30_ReviewsRespectVisibility == [][C30_Step]_vars

\* ---------------------------------------------------------------------------
\* The list query and the single fetch against each other.

====
